---- MODULE Spec2Model ----
(***************************************************************************)
(* Model of sample-model-test.py: a module-level script of four statements *)
(*   1: import onnxruntime as ort                                          *)
(*   2: import numpy as np                                                 *)
(*   5: model_path = "cpu_and_mobile/.../model.onnx"                       *)
(*   8: sess = ort.InferenceSession(model_path,                            *)
(*                                  providers=["CPUExecutionProvider"])    *)
(* The state is the module namespace (ort, np, model_path, sess), the      *)
(* position of the interpreter, the uncaught exception, the trace of calls *)
(* that crossed into the inference library, and the environment the run    *)
(* happens in (importable modules, file system, available backends).       *)
(***************************************************************************)
EXTENDS Naturals, Sequences, FiniteSets

VARIABLES pc, ort, np, model_path, sess, exc, calls, modules, fs, available

vars == <<pc, ort, np, model_path, sess, exc, calls, modules, fs, available>>
env  == <<modules, fs, available>>

(* ---------------- environment the script can be run in ----------------- *)
ModelPathLiteral == "cpu_and_mobile/cpu-int4-rtn-block-32-acc-level-4/model.onnx"
Paths      == {ModelPathLiteral, "model.onnx"}
FileStates == {"missing", "malformed", "valid"}
ModuleNames == {"onnxruntime", "numpy"}
Providers  == {"CPUExecutionProvider", "CUDAExecutionProvider"}

(* ---------------- Python values ---------------------------------------- *)
Unbound      == [kind |-> "unbound"]
NoException  == [kind |-> "none"]
Module(m)    == [kind |-> "module", name |-> m]
Str(s)       == [kind |-> "str", value |-> s]
Session(p, provs)  == [kind |-> "session", path |-> p, providers |-> provs]
Exception(t, o)    == [kind |-> "exception", type |-> t, origin |-> o]

(* Failures the inference library can raise for a path and a backend list  *)
(* in the current environment; which one wins when several apply is the    *)
(* library's choice.                                                       *)
LibraryFailures(p, provs) ==
    (IF fs[p] = "missing"
        THEN {Exception("NoSuchFile", "onnxruntime")} ELSE {})
    \cup (IF fs[p] = "malformed"
        THEN {Exception("InvalidProtobuf", "onnxruntime")} ELSE {})
    \cup (IF \A i \in 1..Len(provs) : provs[i] \notin available
        THEN {Exception("ProviderUnavailable", "onnxruntime")} ELSE {})

(* ort.InferenceSession(path, providers=...): the set of possible results, *)
(* an opaque session handle or a raised exception.                         *)
InferenceSession(p, provs) ==
    IF LibraryFailures(p, provs) = {}
    THEN {Session(p, provs)}
    ELSE LibraryFailures(p, provs)

Init ==
    /\ pc = "import_ort"
    /\ ort = Unbound
    /\ np = Unbound
    /\ model_path = Unbound
    /\ sess = Unbound
    /\ exc = NoException
    /\ calls = <<>>
    /\ modules \in SUBSET ModuleNames
    /\ fs \in [Paths -> FileStates]
    /\ available \in SUBSET Providers

(* line 1: import onnxruntime as ort *)
ImportOrt ==
    /\ pc = "import_ort"
    /\ IF "onnxruntime" \in modules
       THEN /\ ort' = Module("onnxruntime")
            /\ pc' = "import_np"
            /\ exc' = exc
       ELSE /\ ort' = ort
            /\ pc' = "error"
            /\ exc' = Exception("ModuleNotFoundError", "import onnxruntime")
    /\ UNCHANGED <<np, model_path, sess, calls, env>>

(* Variant of line 2 that treats numpy as optional:                        *)
(*   try: import numpy as np / except ImportError: np = None               *)
ImportNumpy_Optional ==
    /\ pc = "import_np"
    /\ np' = (IF "numpy" \in modules THEN Module("numpy") ELSE [kind |-> "None"])
    /\ pc' = "assign_model_path"
    /\ UNCHANGED <<ort, model_path, sess, exc, calls, env>>

(* line 2: import numpy as np *)
ImportNumpy ==
    /\ pc = "import_np"
    /\ IF "numpy" \in modules
       THEN /\ np' = Module("numpy")
            /\ pc' = "assign_model_path"
            /\ exc' = exc
       ELSE /\ np' = np
            /\ pc' = "error"
            /\ exc' = Exception("ModuleNotFoundError", "import numpy")
    /\ UNCHANGED <<ort, model_path, sess, calls, env>>

(* Variant of line 5 followed by an existence test that skips the call     *)
(* when the model file is absent.                                          *)
AssignModelPath_Guarded ==
    /\ pc = "assign_model_path"
    /\ model_path' = Str(ModelPathLiteral)
    /\ pc' = (IF fs[ModelPathLiteral] = "missing" THEN "done" ELSE "create_session")
    /\ UNCHANGED <<ort, np, sess, exc, calls, env>>

(* line 5: model_path = "<literal>" *)
AssignModelPath ==
    /\ pc = "assign_model_path"
    /\ model_path' = Str(ModelPathLiteral)
    /\ pc' = "create_session"
    /\ UNCHANGED <<ort, np, sess, exc, calls, env>>

(* Variant of line 8 that asks for a GPU backend ahead of the CPU one.     *)
CreateSession_Cuda ==
    /\ pc = "create_session"
    /\ \E r \in InferenceSession(model_path.value, <<"CUDAExecutionProvider", "CPUExecutionProvider">>) :
         /\ calls' = Append(calls, [op |-> "InferenceSession",
                                    path |-> model_path.value,
                                    providers |-> <<"CUDAExecutionProvider", "CPUExecutionProvider">>,
                                    result |-> r])
         /\ IF r.kind = "session"
            THEN /\ sess' = r
                 /\ exc' = exc
                 /\ pc' = "done"
                 /\ model_path' = model_path
            ELSE /\ sess' = sess
                 /\ exc' = r
                 /\ pc' = "error"
                 /\ model_path' = model_path
    /\ UNCHANGED <<ort, np, env>>

(* Variant of line 8 wrapped in try/except that swallows the failure.      *)
CreateSession_Catch ==
    /\ pc = "create_session"
    /\ \E r \in InferenceSession(model_path.value, <<"CPUExecutionProvider">>) :
         /\ calls' = Append(calls, [op |-> "InferenceSession",
                                    path |-> model_path.value,
                                    providers |-> <<"CPUExecutionProvider">>,
                                    result |-> r])
         /\ IF r.kind = "session"
            THEN /\ sess' = r
                 /\ exc' = exc
                 /\ pc' = "done"
                 /\ model_path' = model_path
            ELSE /\ sess' = [kind |-> "None"]
                 /\ exc' = exc
                 /\ pc' = "done"
                 /\ model_path' = model_path
    /\ UNCHANGED <<ort, np, env>>

(* Variant of line 8 that retries the call once after a failure.          *)
CreateSession_RetryOnce ==
    /\ pc = "create_session"
    /\ \E r \in InferenceSession(model_path.value, <<"CPUExecutionProvider">>) :
         /\ calls' = Append(calls, [op |-> "InferenceSession",
                                    path |-> model_path.value,
                                    providers |-> <<"CPUExecutionProvider">>,
                                    result |-> r])
         /\ IF r.kind = "session"
            THEN /\ sess' = r
                 /\ exc' = exc
                 /\ pc' = "done"
                 /\ model_path' = model_path
            ELSE /\ sess' = sess
                 /\ exc' = (IF calls = <<>> THEN exc ELSE r)
                 /\ pc' = (IF calls = <<>> THEN "create_session" ELSE "error")
                 /\ model_path' = model_path
    /\ UNCHANGED <<ort, np, env>>

(* Variant of line 8 that goes on to run inference on the new session.    *)
CreateSession_Run ==
    /\ pc = "create_session"
    /\ \E r \in InferenceSession(model_path.value, <<"CPUExecutionProvider">>) :
         /\ calls' = (IF r.kind = "session"
                    THEN <<[op |-> "InferenceSession",
                            path |-> model_path.value,
                            providers |-> <<"CPUExecutionProvider">>,
                            result |-> r],
                           [op |-> "run",
                            path |-> model_path.value,
                            providers |-> <<"CPUExecutionProvider">>,
                            result |-> r]>>
                    ELSE Append(calls, [op |-> "InferenceSession",
                                    path |-> model_path.value,
                                    providers |-> <<"CPUExecutionProvider">>,
                                    result |-> r]))
         /\ IF r.kind = "session"
            THEN /\ sess' = r
                 /\ exc' = exc
                 /\ pc' = "done"
                 /\ model_path' = model_path
            ELSE /\ sess' = sess
                 /\ exc' = r
                 /\ pc' = "error"
                 /\ model_path' = model_path
    /\ UNCHANGED <<ort, np, env>>

(* Variant of line 8 that deletes model_path when the call fails.          *)
CreateSession_ClearPath ==
    /\ pc = "create_session"
    /\ \E r \in InferenceSession(model_path.value, <<"CPUExecutionProvider">>) :
         /\ calls' = Append(calls, [op |-> "InferenceSession",
                                    path |-> model_path.value,
                                    providers |-> <<"CPUExecutionProvider">>,
                                    result |-> r])
         /\ IF r.kind = "session"
            THEN /\ sess' = r
                 /\ exc' = exc
                 /\ pc' = "done"
                 /\ model_path' = model_path
            ELSE /\ sess' = sess
                 /\ exc' = r
                 /\ pc' = "error"
                 /\ model_path' = Unbound
    /\ UNCHANGED <<ort, np, env>>

(* line 8: sess = ort.InferenceSession(model_path, providers=[...]) *)
CreateSession ==
    /\ pc = "create_session"
    /\ \E r \in InferenceSession(model_path.value, <<"CPUExecutionProvider">>) :
         /\ calls' = Append(calls, [op |-> "InferenceSession",
                                    path |-> model_path.value,
                                    providers |-> <<"CPUExecutionProvider">>,
                                    result |-> r])
         /\ IF r.kind = "session"
            THEN /\ sess' = r
                 /\ exc' = exc
                 /\ pc' = "done"
            ELSE /\ sess' = sess
                 /\ exc' = r
                 /\ pc' = "error"
    /\ UNCHANGED <<ort, np, model_path, env>>

Next == ImportOrt \/ ImportNumpy \/ AssignModelPath \/ CreateSession

Spec == Init /\ [][Next]_vars

(* The interpreter runs the statements one after another without yielding: *)
(* an enabled statement is eventually executed.                            *)
FairSpec == Spec /\ WF_vars(Next)

Terminated == pc \in {"done", "error"}

(* ------------------------------ properties ----------------------------- *)

(* C1: the session-creation call is issued at most once, and when issued   *)
(* its arguments are exactly the hard-coded model path and the one-element *)
(* backend list ["CPUExecutionProvider"].                                  *)
C1_SingleCallFixedArgs ==
    /\ Len(calls) <= 1
    /\ \A i \in 1..Len(calls) :
         /\ calls[i].op = "InferenceSession"
         /\ calls[i].path = "cpu_and_mobile/cpu-int4-rtn-block-32-acc-level-4/model.onnx"
         /\ calls[i].providers = <<"CPUExecutionProvider">>

C1_Witness == Len(calls) = 1

(* C2: when the session-creation call fails, the library's exception is    *)
(* the uncaught exception of the script unchanged, the script is in its    *)
(* error state, the call was made once, and sess is not bound.             *)
C2_FailurePropagates ==
    (calls # <<>> /\ calls[Len(calls)].result.kind = "exception") =>
        /\ pc = "error"
        /\ exc = calls[1].result
        /\ sess = Unbound
        /\ Len(calls) = 1

C2_Witness ==
    /\ calls # <<>>
    /\ calls[1].result.kind = "exception"
    /\ pc = "error"

(* C3 as stated: a finished run has performed one session-creation call    *)
(* and ended with a session handle or with the library's failure.          *)
C3_Original ==
    Terminated =>
        /\ Len(calls) = 1
        /\ \/ sess.kind = "session"
           \/ (exc.kind = "exception" /\ exc.origin = "onnxruntime")

TerminalShape ==
    \/ /\ pc = "done"
       /\ Len(calls) = 1
       /\ sess.kind = "session"
       /\ sess = calls[1].result
       /\ exc = NoException
    \/ /\ pc = "error"
       /\ Len(calls) = 1
       /\ exc = calls[1].result
       /\ exc.kind = "exception"
       /\ sess = Unbound
    \/ /\ pc = "error"
       /\ calls = <<>>
       /\ exc.kind = "exception"
       /\ exc.type = "ModuleNotFoundError"
       /\ modules # ModuleNames
       /\ sess = Unbound

(* C3 amended: every run terminates; it performs at most one               *)
(* session-creation call (exactly one when both imports succeed) and ends  *)
(* with a session handle, with the failure raised by the library, or with  *)
(* an import failure raised before any call; no step is taken from a       *)
(* finished state.                                                         *)
C3_Terminates ==
    /\ <>Terminated
    /\ [](Len(calls) <= 1)
    /\ [](Terminated => TerminalShape)
    /\ []((Terminated /\ modules = ModuleNames) => Len(calls) = 1)
    /\ [][~Terminated]_vars

C3_Witness ==
    /\ Terminated
    /\ calls = <<>>
    /\ ort = Unbound

(* C4: after a successful session creation nothing further happens: no     *)
(* step is taken once sess is bound, and the only operation that ever      *)
(* crosses into the library is the session creation itself.                *)
C4_NoUseOfSession ==
    [][ /\ sess = Unbound
        /\ \A i \in 1..Len(calls') : calls'[i].op = "InferenceSession" ]_vars

C4_Witness ==
    /\ sess.kind = "session"
    /\ pc = "done"

(* C5: model_path is bound to the literal string and keeps that value in   *)
(* every later state, including after a failed session creation; the call  *)
(* statement passes it into the library once.                              *)
C5_PathFrame ==
    [][ /\ model_path # Unbound => model_path' = model_path
        /\ model_path' # Unbound =>
             model_path' = Str("cpu_and_mobile/cpu-int4-rtn-block-32-acc-level-4/model.onnx")
        /\ pc = "create_session" =>
             (Len(calls') = 1 /\ Str(calls'[1].path) = model_path) ]_vars

C5_Witness ==
    /\ pc = "error"
    /\ Len(calls) = 1
    /\ model_path = Str("cpu_and_mobile/cpu-int4-rtn-block-32-acc-level-4/model.onnx")

(* C6 as stated: the assignment and the session-creation call are the only *)
(* steps the script executes.                                              *)
C6_Original ==
    [][ /\ pc \in {"assign_model_path", "create_session"}
        /\ pc' \in {"create_session", "done", "error"} ]_vars

StatementOrder ==
    { <<"import_ort", "import_np">>,
      <<"import_np", "assign_model_path">>,
      <<"assign_model_path", "create_session">>,
      <<"create_session", "done">> }

RaisingExits ==
    { <<"import_ort", "error">>,
      <<"import_np", "error">>,
      <<"create_session", "error">> }

(* C6 amended: the script is a flat sequence of four statements, the two   *)
(* imports, the assignment of the model path and the session-creation      *)
(* call; they are the only steps, executed in that order with no branching *)
(* between them, and a statement that raises ends the run.                 *)
C6_FlatSequence ==
    [][ /\ <<pc, pc'>> \in StatementOrder \cup RaisingExits
        /\ (<<pc, pc'>> \in RaisingExits) <=> (exc = NoException /\ exc' # NoException) ]_vars

C6_Witness ==
    /\ pc = "done"
    /\ ort # Unbound
    /\ np # Unbound
    /\ model_path # Unbound
    /\ sess # Unbound

(* C7: the session-creation call is reached only after both imports have   *)
(* succeeded; when numpy cannot be imported the run ends in error with no  *)
(* call issued and an exception that is not the inference library's.       *)
C7_ImportsFirst ==
    /\ (pc = "create_session" \/ calls # <<>>) =>
          (ort = Module("onnxruntime") /\ np = Module("numpy"))
    /\ "numpy" \notin modules => calls = <<>>
    /\ ("numpy" \notin modules /\ Terminated) =>
          /\ pc = "error"
          /\ exc.kind = "exception"
          /\ exc.origin # "onnxruntime"

C7_Witness ==
    /\ pc = "error"
    /\ ort = Module("onnxruntime")
    /\ np = Unbound
    /\ exc = Exception("ModuleNotFoundError", "import numpy")
    /\ calls = <<>>

====
